---- MODULE Spec2Model ----
(***************************************************************************)
(* Ventilation monitoring application: the interval-submission pipeline    *)
(* (store settings -> store observed -> derive -> assemble -> predict ->   *)
(* store prediction) of app/pages/2_Update_Settings.py and                 *)
(* app/pages/2_Update_Settings_(Manual).py, with the helpers of            *)
(* app/utils/ and the store operations of database.py.                     *)
(*                                                                         *)
(* Values.  A nullable number is a tuple: <<>> is null (None / NaN),       *)
(* <<v>> the integer v, <<n, d>> the reduced fraction n/d with d > 1.      *)
(* A text is a sequence of one-character strings.  A table is the sequence *)
(* of its rows in insertion order; a row is a record.                      *)
(***************************************************************************)
EXTENDS Integers, Sequences, FiniteSets, TLC

\* ------------------------------------------------------------------ bounds

\* Number of 15-minute intervals offered by the form (the code offers 17).
NumIntervals == 3

\* Submissions (form posts) a behaviour may contain.
MaxSubmissions == 2

\* Direct calls of the library functions a behaviour of SpecApi may contain.
MaxCalls == 2

\* --------------------------------------------------------------- constants

IntervalStep == 15

Intervals == {IntervalStep * i : i \in 0 .. (NumIntervals - 1)}

PatientIds == {"P001"}

\* The submitting sessions: session 1 alone is the single clinician workflow.
Sessions == {1, 2}

Null == <<>>

Some(v) == <<v>>

Digits == {"0", "1", "2", "3", "4", "5", "6", "7", "8", "9"}

DigitVal(c) ==
    CASE c = "0" -> 0 [] c = "1" -> 1 [] c = "2" -> 2 [] c = "3" -> 3
      [] c = "4" -> 4 [] c = "5" -> 5 [] c = "6" -> 6 [] c = "7" -> 7
      [] c = "8" -> 8 [] c = "9" -> 9

\* Mutant of Abs: the signed value.
Abs_signed(x) == x

Abs(x) == IF x < 0 THEN -x ELSE x

\* Mutant of Min2: the greater of the two.
Max2(a, b) == IF a <= b THEN b ELSE a

Min2(a, b) == IF a <= b THEN a ELSE b

RECURSIVE GCD(_, _)
GCD(a, b) == IF b = 0 THEN a ELSE GCD(b, a % b)

\* The quotient n / d (d # 0) as a nullable-number tuple, reduced.
Quot(n, d) ==
    LET g == GCD(Abs(n), Abs(d))
        s == IF d < 0 THEN -1 ELSE 1
        nn == (s * n) \div g
        dd == (s * d) \div g
    IN  IF dd = 1 THEN <<nn>> ELSE <<nn, dd>>

\* ------------------------------------------------------------ text helpers

\* str.split(sep): the parts between the separators, empty parts kept.
RECURSIVE split(_, _)
split(s, sep) ==
    IF s = <<>> THEN << <<>> >>
    ELSE LET rest == split(Tail(s), sep)
         IN  IF Head(s) = sep THEN << <<>> >> \o rest
             ELSE << <<Head(s)>> \o Head(rest) >> \o Tail(rest)

\* str.isdigit(): non-empty and every character a digit.
isdigit(part) == part # <<>> /\ \A i \in 1 .. Len(part) : part[i] \in Digits

\* int(part) of a digit string.
RECURSIVE int(_)
int(part) ==
    IF part = <<>> THEN 0
    ELSE 10 * int(SubSeq(part, 1, Len(part) - 1)) + DigitVal(part[Len(part)])

\* float(part) succeeds on an optionally signed digit string (of the texts
\* over the modelled alphabet, these are the ones float() accepts).
floatable(part) ==
    \/ isdigit(part)
    \/ Len(part) >= 2 /\ part[1] = "-" /\ isdigit(Tail(part))

float(part) == IF part[1] = "-" THEN -int(Tail(part)) ELSE int(part)

\* parse_ie_ratio: "a:b" -> b / a; every exception (wrong number of parts,
\* float() failing, division by zero) is caught and gives NaN.
parse_ie_ratio(ie_ratio_str) ==
    LET parts == split(ie_ratio_str, ":")
    IN  IF Len(parts) # 2 THEN Null
        ELSE IF ~floatable(parts[1]) \/ ~floatable(parts[2]) THEN Null
        ELSE IF float(parts[1]) = 0 THEN Null
        ELSE Quot(float(parts[2]), float(parts[1]))

\* The form's validation of the I:E text: "int:int", both positive.
ValidIE(ie_ratio) ==
    LET parts == split(ie_ratio, ":")
    IN  /\ Len(parts) = 2
        /\ \A i \in 1 .. 2 : isdigit(parts[i]) /\ int(parts[i]) > 0

\* Mutant of in_range: the bounds themselves count as out of range.
in_range_strict(value, min_val, max_val) ==
    IF value = Null \/ min_val = Null \/ max_val = Null THEN Null
    ELSE IF min_val[1] < value[1] /\ value[1] < max_val[1] THEN Some(1) ELSE Some(0)

\* in_range: NaN when a value or bound is missing, else 1 or 0.
in_range(value, min_val, max_val) ==
    IF value = Null \/ min_val = Null \/ max_val = Null THEN Null
    ELSE IF min_val[1] <= value[1] /\ value[1] <= max_val[1] THEN Some(1) ELSE Some(0)

\* ------------------------------------------------------------------ state

VARIABLES
    timeCol,           \* the store's interval column: "time" (the mock page's
                       \* rows) or "time_interval" (the manual page's rows)
    patients,          \* table patients
    vent_settings,     \* table vent_settings, unique on (patient_id, time)
    observed_data,     \* table observed_data
    derived_features,  \* table derived_features
    predictions,       \* table predictions
    pc,                \* per session: position in the submission handler
    form,              \* per session: the submitted form
    steps,             \* per session: the pipeline steps completed, in order
    outcome,           \* per session: how the last submission ended
    observed_row,      \* per session: the handler's observed_data dict
    derived_data,      \* per session: the handler's derived_data dict
    full_features,     \* per session: the handler's full_features
    preds,             \* per session: the handler's predictions dict
    nsub,              \* submissions so far
    overlap,           \* history, per session: the sessions that were running
                       \* when its submission started
    ret,               \* SpecApi: the last direct call and what it returned
    ncalls             \* SpecApi: direct calls so far; SpecMaint: statements
                       \* of correct_database executed so far

tables == <<patients, vent_settings, observed_data, derived_features, predictions>>

locals == <<pc, form, steps, outcome, observed_row, derived_data, full_features, preds>>

vars == <<timeCol, tables, locals, nsub, overlap, ret, ncalls>>

\* ------------------------------------------------------------------ store

TimeCols == {"time", "time_interval"}

\* The interval column a row dict names.
RowTimeCol(row) == IF "time" \in DOMAIN row THEN "time" ELSE "time_interval"

\* A row can be written when its columns are columns of the table.
Writable(row) == RowTimeCol(row) = timeCol

\* table.select().eq("patient_id", pid).eq(<interval column>, t): rows in
\* insertion order.
select_eq(table, pid, t) ==
    LET Match(r) == r.patient_id = pid /\ r[timeCol] = t
    IN  SelectSeq(table, Match)

select_patient(table, pid) ==
    LET Match(r) == r.patient_id = pid
    IN  SelectSeq(table, Match)

\* .order("time", desc=True).limit(1) over the patient's rows.
latest(table, pid) ==
    LET rows == select_patient(table, pid)
        Top(r) == \A i \in 1 .. Len(rows) : rows[i][timeCol] <= r[timeCol]
    IN  SelectSeq(rows, Top)

\* add_patient: INSERT ... ON CONFLICT(patient_id) DO UPDATE.
add_patient(table, patient_data) ==
    IF \E i \in 1 .. Len(table) : table[i].patient_id = patient_data.patient_id
    THEN [i \in 1 .. Len(table) |->
            IF table[i].patient_id = patient_data.patient_id
            THEN patient_data ELSE table[i]]
    ELSE Append(table, patient_data)

\* add_vent_settings: INSERT ... ON CONFLICT(patient_id, time) DO UPDATE.
add_vent_settings(table, vent_data) ==
    LET Hit(r) == /\ r.patient_id = vent_data.patient_id
                  /\ r[timeCol] = vent_data[timeCol]
    IN  IF \E i \in 1 .. Len(table) : Hit(table[i])
        THEN [i \in 1 .. Len(table) |-> IF Hit(table[i]) THEN vent_data ELSE table[i]]
        ELSE Append(table, vent_data)

\* add_observed_data: plain INSERT.
add_observed_data(table, row) == Append(table, row)

\* add_derived_features: plain INSERT.
add_derived_features(table, row) == Append(table, row)

\* Mutant of add_prediction: the row is keyed by the interval the prediction
\* is about (the next one) instead of the interval submitted.
add_prediction_next(table, patient_id, time, prediction_data) ==
    Append(table, [patient_id |-> patient_id,
                   time |-> time + IntervalStep,
                   tv_in_range_next |-> prediction_data.tv_in_range_next,
                   etco2_in_range_next |-> prediction_data.etco2_in_range_next,
                   spo2_in_range_next |-> prediction_data.spo2_in_range_next,
                   pplat_in_range_next |-> prediction_data.pplat_in_range_next])

\* add_prediction: plain INSERT of {patient_id, time, **prediction_data}.
add_prediction(table, patient_id, time, prediction_data) ==
    Append(table, [patient_id |-> patient_id,
                   time |-> time,
                   tv_in_range_next |-> prediction_data.tv_in_range_next,
                   etco2_in_range_next |-> prediction_data.etco2_in_range_next,
                   spo2_in_range_next |-> prediction_data.spo2_in_range_next,
                   pplat_in_range_next |-> prediction_data.pplat_in_range_next])

\* get_all_patients: the identifiers of the patients table.
get_all_patients(table) == {table[i].patient_id : i \in 1 .. Len(table)}

\* The record getters: the row of the key, or None (<<>>).
get_patient_data(table, pid) ==
    LET rows == select_patient(table, pid)
    IN  IF rows = <<>> THEN <<>> ELSE rows[1]

get_row(table, pid, t) ==
    LET rows == select_eq(table, pid, t)
    IN  IF rows = <<>> THEN <<>> ELSE rows[1]

get_vent_settings(pid, t) == get_row(vent_settings, pid, t)

get_observed_data(pid, t) == get_row(observed_data, pid, t)

get_derived_features(pid, t) == get_row(derived_features, pid, t)

\* -------------------------------------------------------------- form data

Flows == {"mock", "manual"}

\* The interval key each page uses for its rows and its queries.
FlowTimeCol(flow) == IF flow = "mock" THEN "time" ELSE "time_interval"

\* I:E texts a clinician may type (the last two fail the validation).
IETexts == { <<"1", ":", "2">>, <<"2", ":", "1">>, <<"1", ":", "0">>, <<"a">> }

\* The target ranges the patient form proposes.
PatientData(pid) ==
    [patient_id |-> pid,
     min_tv |-> 400, max_tv |-> 600,
     min_etco2 |-> 35, max_etco2 |-> 45,
     min_spo2 |-> 92, max_spo2 |-> 100,
     max_pplat |-> 30]

\* vent_data of the mock page (key "time") and of the manual page
\* (key "time_interval").
VentData(f) ==
    IF f.flow = "mock"
    THEN [patient_id |-> f.patient_id, time |-> f.time_input,
          tv_setting |-> 400, fio2 |-> 0, ventilator_rate |-> 12,
          ie_ratio |-> f.ie_ratio, peep |-> 0, ps |-> 0]
    ELSE [patient_id |-> f.patient_id, time_interval |-> f.time_input,
          tv_setting |-> 400, fio2 |-> 0, ventilator_rate |-> 12,
          ie_ratio |-> f.ie_ratio, peep |-> 0, ps |-> 0]

\* random.randint(-50, 50), two of its values: tv in and below the range.
MockTvNoise == {20, -50}

\* Observed values typed into the manual page (number_input starts at 0).
ManualTv == {0, 420}

\* The observed columns the pipeline reads; the other columns (ppeak, sbp,
\* blood gases, ...) are written and never read by the derivation.
ManualObserved(f, tv) ==
    [patient_id |-> f.patient_id, time_interval |-> f.time_input,
     tv |-> tv, etco2 |-> 40, spo2 |-> 95, pplat |-> 20, hr |-> 80, rr |-> 12]

\* ------------------------------------------------------------ the helpers

Ok(v) == [err |-> "none", msg |-> "", value |-> v]

Raise(kind, msg) == [err |-> kind, msg |-> msg, value |-> <<>>]

\* generate_mock_observed_data: reads the settings row of (patient, time);
\* ValueError when there is none.  noise is the draw of random.randint.
generate_mock_observed_data(vents, patient_id, time, noise) ==
    LET settings == select_eq(vents, patient_id, time)
    IN  IF settings = <<>>
        THEN Raise("ValueError", "No ventilation settings found")
        ELSE Ok([patient_id |-> patient_id, time |-> time,
                 tv |-> settings[1].tv_setting + noise,
                 etco2 |-> 35, spo2 |-> 95, pplat |-> 20,
                 hr |-> 80, rr |-> settings[1].ventilator_rate])

DeltaVars == <<"tv", "etco2", "spo2", "pplat">>

\* Mutant of prev_obs_of: no test for time 0, and the row looked up is the
\* one at time instead of time - 15.
prev_obs_of_self(obsT, patient_id, time) ==
    LET rows == select_eq(obsT, patient_id, time)
    IN  IF rows = <<>> THEN <<>> ELSE rows[1]

\* The previous observed row: None at time 0 or when no row is at time - 15.
prev_obs_of(obsT, patient_id, time) ==
    IF time = 0 THEN <<>>
    ELSE LET rows == select_eq(obsT, patient_id, time - IntervalStep)
         IN  IF rows = <<>> THEN <<>> ELSE rows[1]

\* Mutant of diff_of: the operands of the subtraction exchanged.
diff_of_reversed(o, prev, var) == IF prev # <<>> THEN Some(prev[var] - o[var]) ELSE Null

\* var_diff and var_pct_change.
diff_of(o, prev, var) == IF prev # <<>> THEN Some(o[var] - prev[var]) ELSE Null

pct_change_of(o, prev, var) ==
    IF prev # <<>> THEN Quot((o[var] - prev[var]) * 100, prev[var]) ELSE Null

lag_of(prev, var) == IF prev # <<>> THEN Some(prev[var]) ELSE Null

\* The dict built by compute_derived_features from the rows it fetched.
derived_record(patient_id, o, patient, vent_setting, prev) ==
    [patient_id |-> patient_id,
     time |-> o.time,
     tv_diff |-> diff_of(o, prev, "tv"),
     tv_pct_change |-> pct_change_of(o, prev, "tv"),
     etco2_diff |-> diff_of(o, prev, "etco2"),
     etco2_pct_change |-> pct_change_of(o, prev, "etco2"),
     spo2_diff |-> diff_of(o, prev, "spo2"),
     spo2_pct_change |-> pct_change_of(o, prev, "spo2"),
     pplat_diff |-> diff_of(o, prev, "pplat"),
     pplat_pct_change |-> pct_change_of(o, prev, "pplat"),
     tv_lag1 |-> lag_of(prev, "tv"),
     etco2_lag1 |-> lag_of(prev, "etco2"),
     spo2_lag1 |-> lag_of(prev, "spo2"),
     pplat_lag1 |-> lag_of(prev, "pplat"),
     hr_lag1 |-> lag_of(prev, "hr"),
     rr_lag1 |-> lag_of(prev, "rr"),
     tv_dist_low |-> Some(o.tv - patient.min_tv),
     tv_dist_high |-> Some(patient.max_tv - o.tv),
     tv_dist_closest |->
        Some(Min2(Abs(o.tv - patient.min_tv), Abs(patient.max_tv - o.tv))),
     etco2_dist_low |-> Some(o.etco2 - patient.min_etco2),
     etco2_dist_high |-> Some(patient.max_etco2 - o.etco2),
     etco2_dist_closest |->
        Some(Min2(Abs(o.etco2 - patient.min_etco2), Abs(patient.max_etco2 - o.etco2))),
     spo2_dist_low |-> Some(o.spo2 - patient.min_spo2),
     spo2_dist_high |-> Some(patient.max_spo2 - o.spo2),
     spo2_dist_closest |->
        Some(Min2(Abs(o.spo2 - patient.min_spo2), Abs(patient.max_spo2 - o.spo2))),
     pplat_dist_high |-> Some(patient.max_pplat - o.pplat),
     pplat_dist_closest |-> Some(Abs(patient.max_pplat - o.pplat)),
     tv_in_range |-> in_range(Some(o.tv), Some(patient.min_tv), Some(patient.max_tv)),
     etco2_in_range |->
        in_range(Some(o.etco2), Some(patient.min_etco2), Some(patient.max_etco2)),
     spo2_in_range |->
        in_range(Some(o.spo2), Some(patient.min_spo2), Some(patient.max_spo2)),
     pplat_in_range |-> in_range(Some(o.pplat), Some(0), Some(patient.max_pplat)),
     ie_ratio_numeric |-> parse_ie_ratio(vent_setting.ie_ratio)]

\* The settings row compute_derived_features reads: the patient's latest.
vent_setting_of(vents, patient_id) == latest(vents, patient_id)

\* Mutant of compute_derived_features: a patient without settings rows gets
\* the 1:1 default instead of an exception.
compute_derived_features_default(pats, vents, obsT, patient_id, o) ==
    IF "time" \notin DOMAIN o THEN Raise("KeyError", "time")
    ELSE IF select_patient(pats, patient_id) = <<>>
    THEN Raise("ValueError", "No patient found")
    ELSE LET patient == select_patient(pats, patient_id)[1]
             vent_setting == IF vent_setting_of(vents, patient_id) = <<>>
                             THEN [ie_ratio |-> <<"1", ":", "1">>]
                             ELSE vent_setting_of(vents, patient_id)[1]
             prev == prev_obs_of(obsT, patient_id, o.time)
         IN  IF prev # <<>> /\ \E i \in 1 .. Len(DeltaVars) : prev[DeltaVars[i]] = 0
             THEN Raise("ZeroDivisionError", "pct_change")
             ELSE Ok(derived_record(patient_id, o, patient, vent_setting, prev))

\* compute_derived_features up to its write: the derived dict, or the
\* exception raised (KeyError for a row without "time", ValueError for a
\* missing patient or settings row, ZeroDivisionError for a zero predecessor).
compute_derived_features(pats, vents, obsT, patient_id, o) ==
    IF "time" \notin DOMAIN o THEN Raise("KeyError", "time")
    ELSE IF select_patient(pats, patient_id) = <<>>
    THEN Raise("ValueError", "No patient found")
    ELSE IF vent_setting_of(vents, patient_id) = <<>>
    THEN Raise("ValueError", "No vent settings found")
    ELSE LET patient == select_patient(pats, patient_id)[1]
             vent_setting == vent_setting_of(vents, patient_id)[1]
             prev == prev_obs_of(obsT, patient_id, o.time)
         IN  IF prev # <<>> /\ \E i \in 1 .. Len(DeltaVars) : prev[DeltaVars[i]] = 0
             THEN Raise("ZeroDivisionError", "pct_change")
             ELSE Ok(derived_record(patient_id, o, patient, vent_setting, prev))

\* The trained feature-name list (model/feature_names_v2.json), in order.
TRAIN_FEATURES ==
    <<"min_tv", "max_tv", "tv_setting", "tv", "hr", "tv_diff", "tv_pct_change",
      "tv_lag1", "tv_dist_closest", "tv_in_range", "ie_ratio_numeric">>

\* Mutant of merged_get: the first source holding the key wins.
merged_get_first(patient, vent, obs, derived, k) ==
    IF k \in DOMAIN patient THEN Some(patient[k])
    ELSE IF k \in DOMAIN vent THEN Some(vent[k])
    ELSE IF k \in DOMAIN obs THEN Some(obs[k])
    ELSE IF k \in DOMAIN derived THEN derived[k]
    ELSE Null

\* features.update(patient); .update(vent); .update(obs); .update(derived);
\* then features.get(k): the value of the last source holding k, else None.
merged_get(patient, vent, obs, derived, k) ==
    IF k \in DOMAIN derived THEN derived[k]
    ELSE IF k \in DOMAIN obs THEN Some(obs[k])
    ELSE IF k \in DOMAIN vent THEN Some(vent[k])
    ELSE IF k \in DOMAIN patient THEN Some(patient[k])
    ELSE Null

\* {k: features.get(k) for k in TRAIN_FEATURES}: the dict of the trained
\* names, in the list's order, as the sequence of its items.
features_of(patient, vent, obs, derived) ==
    [i \in 1 .. Len(TRAIN_FEATURES) |->
        [key |-> TRAIN_FEATURES[i],
         value |-> merged_get(patient, vent, obs, derived, TRAIN_FEATURES[i])]]

\* The value of key k in a dict given as the sequence of its items; None
\* when the dict has no such key.
dict_get(input_dict, k) ==
    IF \E i \in 1 .. Len(input_dict) : input_dict[i].key = k
    THEN input_dict[CHOOSE i \in 1 .. Len(input_dict) : input_dict[i].key = k].value
    ELSE Null

\* Mutant of preprocess_data: missing columns are added at the end, the
\* columns are neither reordered nor dropped.
preprocess_data_unordered(input_dict) ==
    input_dict \o
    SelectSeq([i \in 1 .. Len(TRAIN_FEATURES) |-> [key |-> TRAIN_FEATURES[i], value |-> Null]],
              LAMBDA c : \A j \in 1 .. Len(input_dict) : input_dict[j].key # c.key)

\* preprocess_data: the one-row table of the dict, a None column added for
\* each missing trained name, the columns then selected in the list's order.
preprocess_data(input_dict) ==
    [i \in 1 .. Len(TRAIN_FEATURES) |->
        [key |-> TRAIN_FEATURES[i], value |-> dict_get(input_dict, TRAIN_FEATURES[i])]]

\* Mutant of prepare_input_features: the derived row is looked for before
\* the observed row.
prepare_input_features_reordered(pats, patient_id, time) ==
    LET patient == get_patient_data(pats, patient_id)
        vent == get_vent_settings(patient_id, time)
        obs == get_observed_data(patient_id, time)
        derived == get_derived_features(patient_id, time)
    IN  IF patient = <<>> THEN Raise("ValueError", "No patient found")
        ELSE IF vent = <<>> THEN Raise("ValueError", "No vent settings")
        ELSE IF derived = <<>> THEN Raise("ValueError", "No derived features")
        ELSE IF obs = <<>> THEN Raise("ValueError", "No observed data")
        ELSE Ok(features_of(patient, vent, obs, derived))

\* prepare_input_features: the four rows must exist, checked in the order
\* patient, vent settings, observed data, derived features.
prepare_input_features(pats, patient_id, time) ==
    LET patient == get_patient_data(pats, patient_id)
        vent == get_vent_settings(patient_id, time)
        obs == get_observed_data(patient_id, time)
        derived == get_derived_features(patient_id, time)
    IN  IF patient = <<>> THEN Raise("ValueError", "No patient found")
        ELSE IF vent = <<>> THEN Raise("ValueError", "No vent settings")
        ELSE IF obs = <<>> THEN Raise("ValueError", "No observed data")
        ELSE IF derived = <<>> THEN Raise("ValueError", "No derived features")
        ELSE Ok(features_of(patient, vent, obs, derived))

\* What the classifier may answer: four labels, or an exception (written
\* as the empty answer).
ClassifierOutputs == { <<1, 1, 1, 1>>, <<0, 1, 1, 0>> }

ClassifierRaises == <<>>

\* Mutant of predict_outcomes: the first two labels exchanged.
predict_outcomes_swapped(feature_dict, model_out) ==
    IF model_out = ClassifierRaises THEN Raise("ClassifierError", "predict")
    ELSE Ok([tv_in_range_next |-> model_out[2],
             etco2_in_range_next |-> model_out[1],
             spo2_in_range_next |-> model_out[3],
             pplat_in_range_next |-> model_out[4]])

\* predict_outcomes: the classifier's answer mapped by position; its
\* exception is not caught.
predict_outcomes(feature_dict, model_out) ==
    IF model_out = ClassifierRaises THEN Raise("ClassifierError", "predict")
    ELSE Ok([tv_in_range_next |-> model_out[1],
             etco2_in_range_next |-> model_out[2],
             spo2_in_range_next |-> model_out[3],
             pplat_in_range_next |-> model_out[4]])

\* ---------------------------------------------------------------- handler

NoForm == [flow |-> "none", patient_id |-> "", time_input |-> 0, ie_ratio |-> <<>>]

\* How a submission ended: kind and message, and after a prediction the
\* out_of_range list and the status the page shows.
NoOutcome == [kind |-> "none", msg |-> "", out_of_range |-> <<>>, shown |-> ""]

Outcome(kind, msg) == [kind |-> kind, msg |-> msg, out_of_range |-> <<>>, shown |-> ""]

\* Mutant of out_of_range: the fields equal to 1 are listed.
out_of_range_inverted(prediction_data) ==
    (IF prediction_data.tv_in_range_next = 1 THEN <<"Tidal Volume (TV)">> ELSE <<>>)
    \o (IF prediction_data.etco2_in_range_next = 1 THEN <<"ETCO2">> ELSE <<>>)
    \o (IF prediction_data.spo2_in_range_next = 1 THEN <<"SpO2">> ELSE <<>>)
    \o (IF prediction_data.pplat_in_range_next = 1 THEN <<"Plateau Pressure">> ELSE <<>>)

\* The alert trigger: the names of the parameters predicted 0, in the order
\* tv, etco2, spo2, pplat (the page writes ETCO2 and SpO2 with subscripts).
out_of_range(prediction_data) ==
    (IF prediction_data.tv_in_range_next = 0 THEN <<"Tidal Volume (TV)">> ELSE <<>>)
    \o (IF prediction_data.etco2_in_range_next = 0 THEN <<"ETCO2">> ELSE <<>>)
    \o (IF prediction_data.spo2_in_range_next = 0 THEN <<"SpO2">> ELSE <<>>)
    \o (IF prediction_data.pplat_in_range_next = 0 THEN <<"Plateau Pressure">> ELSE <<>>)

\* st.error with the list when it is not empty, else st.info "all within
\* range".
Reported(prediction_data) ==
    [kind |-> "done", msg |-> "",
     out_of_range |-> out_of_range(prediction_data),
     shown |-> IF out_of_range(prediction_data) # <<>> THEN "alert" ELSE "all in range"]

\* Mutant of NextStep: the observed row is stored before the settings row.
NextStepSwapped(step) ==
    CASE step = "check" -> "obs"
      [] step = "obs" -> "vent"
      [] step = "vent" -> "derive"
      [] step = "derive" -> "assemble"
      [] step = "assemble" -> "predict"
      [] step = "predict" -> "store_pred"
      [] step = "store_pred" -> "idle"

\* The order of the handler's steps: "check" is the duplicate check, the
\* others are the pipeline stages.
NextStep(step) ==
    CASE step = "check" -> "vent"
      [] step = "vent" -> "obs"
      [] step = "obs" -> "derive"
      [] step = "derive" -> "assemble"
      [] step = "assemble" -> "predict"
      [] step = "predict" -> "store_pred"
      [] step = "store_pred" -> "idle"

\* The handler stops: an st.error was shown or an exception left the script.
Halt(s, kind, msg) ==
    /\ pc' = [pc EXCEPT ![s] = "idle"]
    /\ outcome' = [outcome EXCEPT ![s] = Outcome(kind, msg)]

Advance(s) == pc' = [pc EXCEPT ![s] = NextStep(pc[s])]

Did(s, step) == steps' = [steps EXCEPT ![s] = Append(steps[s], step)]

\* Mutant of existing: the check finds nothing.
existing_none(vents, f) == <<>>

\* Mutant of existing: the check looks at the next interval's key.
existing_next(vents, f) == select_eq(vents, f.patient_id, f.time_input + IntervalStep)

\* The duplicate check's query: the settings rows already at the form's key.
existing(vents, f) == select_eq(vents, f.patient_id, f.time_input)

\* Page 1: a patient is added (upsert by identifier).
AddPatient ==
    /\ \E pid \in PatientIds :
          /\ pid \notin get_all_patients(patients)
          /\ patients' = add_patient(patients, PatientData(pid))
    /\ UNCHANGED <<timeCol, vent_settings, observed_data, derived_features,
                   predictions, locals, nsub, overlap, ret, ncalls>>

\* The form is posted on the page whose interval key the store knows: the
\* I:E text is validated; an invalid text is reported and nothing else
\* happens.
Submit(s, flow, times, texts) ==
    /\ pc[s] = "idle"
    /\ FlowTimeCol(flow) = timeCol
    /\ nsub < MaxSubmissions
    /\ \E pid \in get_all_patients(patients), t \in times, ie \in texts :
          /\ form' = [form EXCEPT ![s] =
                        [flow |-> flow, patient_id |-> pid,
                         time_input |-> t, ie_ratio |-> ie]]
          /\ IF ValidIE(ie)
             THEN /\ pc' = [pc EXCEPT ![s] = "check"]
                  /\ outcome' = [outcome EXCEPT ![s] = Outcome("running", "")]
             ELSE Halt(s, "invalid", "I:E Ratio must be in format 'int:int'")
    /\ steps' = [steps EXCEPT ![s] = <<>>]
    /\ observed_row' = [observed_row EXCEPT ![s] = <<>>]
    /\ derived_data' = [derived_data EXCEPT ![s] = <<>>]
    /\ full_features' = [full_features EXCEPT ![s] = <<>>]
    /\ preds' = [preds EXCEPT ![s] = <<>>]
    /\ nsub' = nsub + 1
    /\ overlap' = [overlap EXCEPT ![s] = {o \in Sessions \ {s} : pc[o] # "idle"}]
    /\ UNCHANGED <<timeCol, tables, ret, ncalls>>

\* The duplicate check: a query for the settings row of the form's key; a
\* row found is reported as a duplicate and the handler ends.
DupCheck(s) ==
    /\ pc[s] = "check"
    /\ IF existing(vent_settings, form[s]) # <<>>
       THEN Halt(s, "duplicate", "already exists")
       ELSE Advance(s) /\ outcome' = outcome
    /\ UNCHANGED <<timeCol, tables, form, steps, observed_row, derived_data,
                   full_features, preds, nsub, overlap, ret, ncalls>>

\* Store D: add_vent_settings inside try/except; a failure is reported and
\* the handler goes on.
StoreVent(s) ==
    /\ pc[s] = "vent"
    /\ \E ok \in BOOLEAN :
          IF ok
          THEN /\ vent_settings' = add_vent_settings(vent_settings, VentData(form[s]))
               /\ Did(s, "vent")
          ELSE UNCHANGED <<vent_settings, steps>>
    /\ Advance(s)
    /\ UNCHANGED <<timeCol, patients, observed_data, derived_features, predictions,
                   form, outcome, observed_row, derived_data, full_features, preds,
                   nsub, overlap, ret, ncalls>>

\* E: the observed row is generated (mock page) or taken from the form
\* (manual page) and inserted.
StoreObserved(s) ==
    /\ pc[s] = "obs"
    /\ IF form[s].flow = "mock"
       THEN \E noise \in MockTvNoise :
              LET r == generate_mock_observed_data(vent_settings,
                          form[s].patient_id, form[s].time_input, noise)
              IN  IF r.err # "none"
                  THEN /\ Halt(s, r.err, r.msg)
                       /\ UNCHANGED <<observed_data, observed_row, steps>>
                  ELSE /\ observed_data' = add_observed_data(observed_data, r.value)
                       /\ observed_row' = [observed_row EXCEPT ![s] = r.value]
                       /\ Did(s, "obs")
                       /\ Advance(s)
                       /\ outcome' = outcome
       ELSE \E tv \in ManualTv :
              LET row == ManualObserved(form[s], tv)
              IN  /\ observed_data' = add_observed_data(observed_data, row)
                  /\ observed_row' = [observed_row EXCEPT ![s] = row]
                  /\ Did(s, "obs")
                  /\ Advance(s)
                  /\ outcome' = outcome
    /\ UNCHANGED <<timeCol, patients, vent_settings, derived_features, predictions,
                   form, derived_data, full_features, preds, nsub, overlap, ret,
                   ncalls>>

\* F: compute_derived_features, which inserts the derived row itself.
Derive(s) ==
    /\ pc[s] = "derive"
    /\ LET r == compute_derived_features(patients, vent_settings, observed_data,
                                         form[s].patient_id, observed_row[s])
       IN  IF r.err # "none"
           THEN /\ Halt(s, r.err, r.msg)
                /\ UNCHANGED <<derived_features, derived_data, steps>>
           ELSE /\ derived_features' = add_derived_features(derived_features, r.value)
                /\ derived_data' = [derived_data EXCEPT ![s] = r.value]
                /\ Did(s, "derive")
                /\ Advance(s)
                /\ outcome' = outcome
    /\ UNCHANGED <<timeCol, patients, vent_settings, observed_data, predictions,
                   form, observed_row, full_features, preds, nsub, overlap, ret,
                   ncalls>>

\* Mutant of Assemble: the exception of prepare_input_features is caught
\* and reported, and the handler goes on.
AssembleCaught(s) ==
    /\ pc[s] = "assemble"
    /\ LET r == prepare_input_features(patients, form[s].patient_id,
                                       form[s].time_input)
       IN  IF r.err # "none"
           THEN /\ outcome' = [outcome EXCEPT ![s] = Outcome(r.err, r.msg)]
                /\ Advance(s)
                /\ UNCHANGED <<full_features, steps>>
           ELSE /\ full_features' = [full_features EXCEPT ![s] = r.value]
                /\ Did(s, "assemble")
                /\ Advance(s)
                /\ outcome' = outcome
    /\ UNCHANGED <<timeCol, tables, form, observed_row, derived_data, preds,
                   nsub, overlap, ret, ncalls>>

\* A-F: prepare_input_features.
Assemble(s) ==
    /\ pc[s] = "assemble"
    /\ LET r == prepare_input_features(patients, form[s].patient_id,
                                       form[s].time_input)
       IN  IF r.err # "none"
           THEN /\ Halt(s, r.err, r.msg)
                /\ UNCHANGED <<full_features, steps>>
           ELSE /\ full_features' = [full_features EXCEPT ![s] = r.value]
                /\ Did(s, "assemble")
                /\ Advance(s)
                /\ outcome' = outcome
    /\ UNCHANGED <<timeCol, tables, form, observed_row, derived_data, preds,
                   nsub, overlap, ret, ncalls>>

\* Mutant of PredictFailed: a failed prediction is stored as "all out of
\* range" instead of being left out.
PredictFailedStored(s, r) ==
    /\ Halt(s, r.err, r.msg)
    /\ predictions' = add_prediction(predictions, form[s].patient_id, form[s].time_input,
                          [tv_in_range_next |-> 0, etco2_in_range_next |-> 0,
                           spo2_in_range_next |-> 0, pplat_in_range_next |-> 0])
    /\ UNCHANGED <<preds, steps, patients, vent_settings, observed_data,
                   derived_features>>

\* G: predict_outcomes; the classifier answers or raises, and the handler
\* does not catch the exception.
PredictFailed(s, r) ==
    /\ Halt(s, r.err, r.msg)
    /\ UNCHANGED <<preds, steps, tables>>

Predict(s) ==
    /\ pc[s] = "predict"
    /\ \E model_out \in ClassifierOutputs \cup {ClassifierRaises} :
          LET r == predict_outcomes(full_features[s], model_out)
          IN  IF r.err # "none"
              THEN PredictFailed(s, r)
              ELSE /\ preds' = [preds EXCEPT ![s] = r.value]
                   /\ Did(s, "predict")
                   /\ Advance(s)
                   /\ outcome' = outcome
                   /\ UNCHANGED tables
    /\ UNCHANGED <<timeCol, form, observed_row, derived_data, full_features,
                   nsub, overlap, ret, ncalls>>

\* Store G: add_prediction, then the alert trigger, and the handler ends.
StorePrediction(s) ==
    /\ pc[s] = "store_pred"
    /\ predictions' = add_prediction(predictions, form[s].patient_id,
                                     form[s].time_input, preds[s])
    /\ Did(s, "store_pred")
    /\ Advance(s)
    /\ outcome' = [outcome EXCEPT ![s] = Reported(preds[s])]
    /\ UNCHANGED <<timeCol, patients, vent_settings, observed_data, derived_features,
                   form, observed_row, derived_data, full_features, preds, nsub,
                   overlap, ret, ncalls>>

\* ---------------------------------------------------------- specifications

NoCall == [op |-> "none", patient_id |-> "", time |-> 0, keyed |-> "", res |-> Ok(<<>>)]

InitLocals ==
    /\ pc = [s \in Sessions |-> "idle"]
    /\ form = [s \in Sessions |-> NoForm]
    /\ steps = [s \in Sessions |-> <<>>]
    /\ outcome = [s \in Sessions |-> NoOutcome]
    /\ observed_row = [s \in Sessions |-> <<>>]
    /\ derived_data = [s \in Sessions |-> <<>>]
    /\ full_features = [s \in Sessions |-> <<>>]
    /\ preds = [s \in Sessions |-> <<>>]
    /\ nsub = 0
    /\ overlap = [s \in Sessions |-> {}]
    /\ ret = NoCall
    /\ ncalls = 0

EmptyStore ==
    /\ patients = <<>>
    /\ vent_settings = <<>>
    /\ observed_data = <<>>
    /\ derived_features = <<>>
    /\ predictions = <<>>

\* The store names its interval column "time" or "time_interval"; the
\* clinician works on the page that names it the same way.
Init == timeCol \in TimeCols /\ EmptyStore /\ InitLocals

Step(s) ==
    \/ DupCheck(s)
    \/ StoreVent(s)
    \/ StoreObserved(s)
    \/ Derive(s)
    \/ Assemble(s)
    \/ Predict(s)
    \/ StorePrediction(s)

\* One clinician: the submissions of session 1, on either page.
Next ==
    \/ AddPatient
    \/ \E flow \in Flows : Submit(1, flow, Intervals, IETexts)
    \/ Step(1)

Spec == Init /\ [][Next]_vars

\* Two clinicians on the mock page at once: the steps of the two handlers
\* interleave (each store request is one step).
InitConc == timeCol = "time" /\ EmptyStore /\ InitLocals

\* The intervals the two clinicians submit for.
ConcIntervals == {0, IntervalStep}

\* The I:E texts they type: one valid, one the validation refuses.
ConcIETexts == { <<"1", ":", "2">>, <<"1", ":", "0">> }

NextConc ==
    \/ AddPatient
    \/ \E s \in Sessions : Submit(s, "mock", ConcIntervals, ConcIETexts)
    \/ \E s \in Sessions : Step(s)

SpecConc == InitConc /\ [][NextConc]_vars

\* One clinician on the mock page while the maintenance script
\* correct_database runs: its DELETE statements, one table each, are
\* separate requests between which the handler's requests can fall.

\* The tables the script empties of the patient's rows, in its order.
CorrectionOrder == <<"derived_features", "observed_data", "predictions", "vent_settings">>

\* DELETE FROM table WHERE patient_id = pid.
delete_patient(table, pid) == SelectSeq(table, LAMBDA row : row.patient_id # pid)

correct_database ==
    /\ ncalls < Len(CorrectionOrder)
    /\ \E pid \in PatientIds :
          LET target == CorrectionOrder[ncalls + 1]
              after(name, table) ==
                 IF name = target THEN delete_patient(table, pid) ELSE table
          IN  /\ derived_features' = after("derived_features", derived_features)
              /\ observed_data' = after("observed_data", observed_data)
              /\ predictions' = after("predictions", predictions)
              /\ vent_settings' = after("vent_settings", vent_settings)
    /\ ncalls' = ncalls + 1
    /\ UNCHANGED <<timeCol, patients, locals, nsub, overlap, ret>>

InitMaint == timeCol = "time" /\ EmptyStore /\ InitLocals

NextMaint ==
    \/ AddPatient
    \/ Submit(1, "mock", Intervals, ConcIETexts)
    \/ Step(1)
    \/ correct_database

SpecMaint == InitMaint /\ [][NextMaint]_vars

\* ------------------------------------------------- the functions, called
\* directly on a store in which any of the rows may be missing.

RECURSIVE SeqAsc(_)
SeqAsc(S) ==
    IF S = {} THEN <<>>
    ELSE LET m == CHOOSE x \in S : \A y \in S : x <= y
         IN  <<m>> \o SeqAsc(S \ {m})

ApiVentRow(pid, t) ==
    [patient_id |-> pid, time |-> t, tv_setting |-> 400, fio2 |-> 0,
     ventilator_rate |-> 12, ie_ratio |-> <<"1", ":", "2">>, peep |-> 0, ps |-> 0]

ApiObservedRow(pid, t, tv) ==
    [patient_id |-> pid, time |-> t,
     tv |-> tv, etco2 |-> 40, spo2 |-> 95, pplat |-> 20, hr |-> 80, rr |-> 12]

\* Observed tv values of the stored rows: 0 is a zero predecessor.
ApiTv == {0, 420}

\* The observed_row arguments: rows keyed "time", and the manual page's
\* dict, keyed "time_interval".
ApiObservedArgs ==
    {ApiObservedRow(pid, t, 420) : pid \in PatientIds, t \in Intervals}
    \cup {[patient_id |-> pid, time_interval |-> 0,
           tv |-> 420, etco2 |-> 40, spo2 |-> 95, pplat |-> 20, hr |-> 80, rr |-> 12]
          : pid \in PatientIds}

InitApi ==
    /\ timeCol = "time"
    /\ \E hasPatient \in BOOLEAN :
          patients = IF hasPatient THEN <<PatientData("P001")>> ELSE <<>>
    /\ \E vt \in SUBSET Intervals :
          vent_settings = [i \in 1 .. Cardinality(vt) |-> ApiVentRow("P001", SeqAsc(vt)[i])]
    /\ \E oc \in [Intervals -> {-1} \cup ApiTv] :
          LET ts == SeqAsc({t \in Intervals : oc[t] # -1})
          IN  observed_data =
                [i \in 1 .. Len(ts) |-> ApiObservedRow("P001", ts[i], oc[ts[i]])]
    /\ derived_features = <<>>
    /\ predictions = <<>>
    /\ InitLocals

\* compute_derived_features(patient_id, observed_row, supabase): the derived
\* dict is inserted and returned, or the exception leaves the function.
CallComputeDerived ==
    /\ ncalls < MaxCalls
    /\ \E pid \in PatientIds, o \in ApiObservedArgs :
          LET r == compute_derived_features(patients, vent_settings, observed_data,
                                            pid, o)
          IN  /\ derived_features' =
                    IF r.err = "none"
                    THEN add_derived_features(derived_features, r.value)
                    ELSE derived_features
              /\ ret' = [op |-> "compute_derived_features", patient_id |-> pid,
                         time |-> o[RowTimeCol(o)], keyed |-> RowTimeCol(o),
                         res |-> r]
    /\ ncalls' = ncalls + 1
    /\ UNCHANGED <<timeCol, patients, vent_settings, observed_data, predictions,
                   locals, nsub, overlap>>

\* prepare_input_features(patient_id, time, supabase).
CallPrepare ==
    /\ ncalls < MaxCalls
    /\ \E pid \in PatientIds, t \in Intervals :
          ret' = [op |-> "prepare_input_features", patient_id |-> pid,
                  time |-> t, keyed |-> "time",
                  res |-> prepare_input_features(patients, pid, t)]
    /\ ncalls' = ncalls + 1
    /\ UNCHANGED <<timeCol, tables, locals, nsub, overlap>>

NextApi == CallComputeDerived \/ CallPrepare

SpecApi == InitApi /\ [][NextApi]_vars

\* ------------------------------------------- the helpers as pure functions,
\* applied to drawn arguments; the store is not touched.  A behaviour is one
\* call: the result depends on the arguments only.

FnCall(op, args, res) == [op |-> op, args |-> args, res |-> res]

FnTv == {0, 300, 400, 420, 600, 650}

FnBounds == {400, 600}

FnEtco2 == {35, 50}

FnSpo2 == {91, 100}

FnPplat == {0, 20, 30, 35}

FnMaxPplat == {25, 30}

FnPatient(min_tv, max_tv, max_pplat) ==
    [PatientData("P001") EXCEPT !.min_tv = min_tv, !.max_tv = max_tv,
                                 !.max_pplat = max_pplat]

FnObserved(t, tv, etco2, spo2, pplat, hr, rr) ==
    [patient_id |-> "P001", time |-> t,
     tv |-> tv, etco2 |-> etco2, spo2 |-> spo2, pplat |-> pplat, hr |-> hr, rr |-> rr]

\* Earlier observed rows: none or one at interval 0, and none, one or one
\* with tv = 0 at interval 15.
FnEarlierRows ==
    {r0 \o r15 :
        r0 \in {<<>>, <<FnObserved(0, 420, 40, 95, 20, 80, 12)>>},
        r15 \in {<<>>, <<FnObserved(IntervalStep, 380, 38, 97, 22, 90, 14)>>,
                  <<FnObserved(IntervalStep, 0, 38, 97, 22, 90, 14)>>}}

FnTimes == {0, IntervalStep, 2 * IntervalStep}

InitFn == timeCol = "time" /\ EmptyStore /\ InitLocals

\* compute_derived_features up to its insert, on a patient, a settings row
\* and earlier observed rows.
CallDerive ==
    /\ ret = NoCall
    /\ \E tv \in FnTv, min_tv \in FnBounds, max_tv \in FnBounds, etco2 \in FnEtco2,
          spo2 \in FnSpo2, pplat \in FnPplat, max_pplat \in FnMaxPplat,
          t \in FnTimes, obsT \in FnEarlierRows :
          LET patient == FnPatient(min_tv, max_tv, max_pplat)
              o == FnObserved(t, tv, etco2, spo2, pplat, 80, 12)
          IN  ret' = FnCall("compute_derived_features",
                            [patient |-> patient, o |-> o, obsT |-> obsT],
                            compute_derived_features(<<patient>>,
                                <<ApiVentRow("P001", t)>>, obsT, "P001", o))
    /\ ncalls' = ncalls + 1
    /\ UNCHANGED <<timeCol, tables, locals, nsub, overlap>>

\* Values and bounds handed to in_range, null included.
FnNullable == {Null} \cup {Some(v) : v \in {0, 399, 400, 500, 600, 601}}

\* in_range(value, min_val, max_val).
CallInRange ==
    /\ ret = NoCall
    /\ \E value \in FnNullable, min_val \in FnNullable, max_val \in FnNullable :
          ret' = FnCall("in_range", <<value, min_val, max_val>>,
                        in_range(value, min_val, max_val))
    /\ ncalls' = ncalls + 1
    /\ UNCHANGED <<timeCol, tables, locals, nsub, overlap>>

\* Texts handed to parse_ie_ratio.
FnIETexts ==
    { <<"1", ":", "2">>, <<"2", ":", "1">>, <<"3", ":", "2">>, <<"1", "0", ":", "5">>,
      <<"a", "b", "c">>, <<"1", ":", "0">>, <<"0", ":", "1">>, <<"0", ":", "0">>,
      <<"-", "1", ":", "2">>, <<"1", ":", "2", ":", "3">>, <<"1", ":">>, <<":">>,
      <<"1", "2">>, <<>>, <<"a", ":", "2">> }

\* parse_ie_ratio(ie_ratio_str).
CallParseIE ==
    /\ ret = NoCall
    /\ \E ie_ratio_str \in FnIETexts :
          ret' = FnCall("parse_ie_ratio", <<ie_ratio_str>>, parse_ie_ratio(ie_ratio_str))
    /\ ncalls' = ncalls + 1
    /\ UNCHANGED <<timeCol, tables, locals, nsub, overlap>>

\* The row with key k set to v when has holds.
WithKey(row, has, k, v) ==
    IF has THEN [x \in DOMAIN row \cup {k} |-> IF x = k THEN v ELSE row[x]] ELSE row

\* The merge and projection of prepare_input_features on four source rows:
\* each may or may not carry the key "tv", the patient row "max_tv", the
\* observed row "hr", the derived row "tv_diff".
CallAssemble ==
    /\ ret = NoCall
    /\ \E inP \in BOOLEAN, inV \in BOOLEAN, inO \in BOOLEAN, inD \in BOOLEAN,
          hasMax \in BOOLEAN, hasHr \in BOOLEAN, hasDiff \in BOOLEAN :
          LET patient == WithKey(WithKey([patient_id |-> "P001", min_tv |-> 400],
                                         hasMax, "max_tv", 600), inP, "tv", 1)
              vent == WithKey([patient_id |-> "P001", time |-> 0, tv_setting |-> 400,
                               fio2 |-> 40], inV, "tv", 2)
              obs == WithKey(WithKey([patient_id |-> "P001", time |-> 0, fio2 |-> 50],
                                     hasHr, "hr", 80), inO, "tv", 3)
              derived == WithKey(WithKey([patient_id |-> "P001", time |-> 0,
                                          tv_in_range |-> <<1>>],
                                         hasDiff, "tv_diff", Null), inD, "tv", <<4>>)
          IN  ret' = FnCall("prepare_input_features",
                            [patient |-> patient, vent |-> vent, obs |-> obs,
                             derived |-> derived],
                            features_of(patient, vent, obs, derived))
    /\ ncalls' = ncalls + 1
    /\ UNCHANGED <<timeCol, tables, locals, nsub, overlap>>

\* Dicts handed to preprocess_data, as the sequences of their items: empty,
\* partial, out of order, with names the list does not have.
FnDicts ==
    LET item(k, v) == [key |-> k, value |-> <<v>>]
    IN  { <<>>,
          <<item("tv", 420)>>,
          <<item("hr", 80), item("tv", 420)>>,
          <<item("patient_id", 1), item("tv", 420), item("min_tv", 400)>>,
          <<item("ie_ratio_numeric", 2), item("time", 15), item("min_tv", 400),
            item("etco2", 40)>>,
          [i \in 1 .. Len(TRAIN_FEATURES) |->
              item(TRAIN_FEATURES[Len(TRAIN_FEATURES) + 1 - i], i)],
          [i \in 1 .. Len(TRAIN_FEATURES) |-> item(TRAIN_FEATURES[i], i)] }

\* preprocess_data(input_dict).
CallPreprocess ==
    /\ ret = NoCall
    /\ \E input_dict \in FnDicts :
          ret' = FnCall("preprocess_data", <<input_dict>>, preprocess_data(input_dict))
    /\ ncalls' = ncalls + 1
    /\ UNCHANGED <<timeCol, tables, locals, nsub, overlap>>

\* Every answer of four binary labels.
FnClassifierOutputs == [1 .. 4 -> {0, 1}]

\* predict_outcomes(feature_dict): the function has no handle on the store.
CallPredict ==
    /\ ret = NoCall
    /\ \E model_out \in FnClassifierOutputs \cup {ClassifierRaises},
          input_dict \in {<<>>, [i \in 1 .. Len(TRAIN_FEATURES) |->
                                   [key |-> TRAIN_FEATURES[i], value |-> <<i>>]]} :
          ret' = FnCall("predict_outcomes", <<input_dict, model_out>>,
                        predict_outcomes(input_dict, model_out))
    /\ ncalls' = ncalls + 1
    /\ UNCHANGED <<timeCol, tables, locals, nsub, overlap>>

NextFn ==
    \/ CallDerive
    \/ CallInRange
    \/ CallParseIE
    \/ CallAssemble
    \/ CallPreprocess
    \/ CallPredict

SpecFn == InitFn /\ [][NextFn]_vars

\* ------------------------------------------------------------------ claims

PipelineOrder == <<"vent", "obs", "derive", "assemble", "predict", "store_pred">>

StepIdx(step) == CHOOSE i \in 1 .. Len(PipelineOrder) : PipelineOrder[i] = step

HasRow(table, pid, t) ==
    \E i \in 1 .. Len(table) : table[i].patient_id = pid /\ table[i][timeCol] = t

RowsAt(table, pid, t) ==
    Cardinality({i \in 1 .. Len(table) :
                    table[i].patient_id = pid /\ table[i][timeCol] = t})

\* C1: in every submission the completed pipeline steps are in the order
\* settings stored, observed stored, derived stored, vector assembled,
\* classifier invoked, prediction stored; each at most once; a step is
\* completed only when the handler has passed the steps before it (only the
\* settings write, whose failure is caught, may be missing before it).
C1_PipelineOrder ==
    \A s \in Sessions :
       /\ \A i, j \in 1 .. Len(steps[s]) :
             i < j => StepIdx(steps[s][i]) < StepIdx(steps[s][j])
       /\ \A i \in 2 .. Len(steps[s]) :
             StepIdx(steps[s][i]) = StepIdx(steps[s][i - 1]) + 1
       /\ steps[s] # <<>> => steps[s][1] \in {"vent", "obs"}
       /\ pc[s] \notin {"idle", "check"} =>
             \A i \in 1 .. Len(steps[s]) : StepIdx(steps[s][i]) < StepIdx(pc[s])

\* C1 witness: an accepted submission has run all six steps.
C1_Witness == \E s \in Sessions : steps[s] = PipelineOrder /\ outcome[s].kind = "done"

\* C2: a submission for a key that already has a settings row is rejected
\* as a duplicate at the check, with no step run, and neither posting the
\* form nor the check changes any table.
C2_DuplicateRejected ==
    [][\A s \in Sessions :
          /\ (pc[s] = "idle" /\ pc'[s] = "check") => tables' = tables
          /\ (/\ pc[s] = "check"
              /\ pc'[s] # "check"
              /\ HasRow(vent_settings, form[s].patient_id, form[s].time_input))
             => /\ outcome'[s].kind = "duplicate"
                /\ pc'[s] = "idle"
                /\ steps'[s] = <<>>
                /\ tables' = tables]_vars

\* C2 witness: a submission was rejected as a duplicate of a stored row.
C2_Witness ==
    \E s \in Sessions :
       /\ outcome[s].kind = "duplicate"
       /\ HasRow(vent_settings, form[s].patient_id, form[s].time_input)

\* C3: the settings table never holds two rows of one key, and a settings
\* row, once written, stays as it was written.
C3_SettingsWrittenOnce ==
    [][/\ \A i, j \in 1 .. Len(vent_settings') :
             (/\ vent_settings'[i].patient_id = vent_settings'[j].patient_id
              /\ vent_settings'[i][timeCol] = vent_settings'[j][timeCol]) => i = j
       /\ \A i \in 1 .. Len(vent_settings) :
             \E j \in 1 .. Len(vent_settings') : vent_settings'[j] = vent_settings[i]]_vars

\* C3 witness: a row is stored and a later submission for its key, with
\* another I:E text, was turned away.
C3_Witness ==
    \E s \in Sessions :
       /\ outcome[s].kind = "duplicate"
       /\ \E i \in 1 .. Len(vent_settings) :
             /\ vent_settings[i].patient_id = form[s].patient_id
             /\ vent_settings[i][timeCol] = form[s].time_input
             /\ vent_settings[i].ie_ratio # form[s].ie_ratio

InTable(table, row) == \E i \in 1 .. Len(table) : table[i] = row

\* C4: when the classifier raises, the handler ends with that error, no
\* prediction row exists for the key, and the settings, observed and derived
\* rows this submission stored are in the store as they were written.
C4_ClassifierFailure ==
    \A s \in Sessions :
       outcome[s].kind = "ClassifierError" =>
          /\ pc[s] = "idle"
          /\ preds[s] = <<>>
          /\ steps[s] = <<"vent", "obs", "derive", "assemble">>
          /\ RowsAt(predictions, form[s].patient_id, form[s].time_input) = 0
          /\ InTable(vent_settings, VentData(form[s]))
          /\ InTable(observed_data, observed_row[s])
          /\ InTable(derived_features, derived_data[s])

\* C4 witness: a submission ended with the classifier's exception.
C4_Witness == \E s \in Sessions : outcome[s].kind = "ClassifierError"

SameKey(s1, s2) ==
    /\ form[s1].patient_id = form[s2].patient_id
    /\ form[s1].time_input = form[s2].time_input

\* Both submissions passed the duplicate check and wrote for the same key.
DoubleRun(s1, s2) ==
    /\ s1 # s2
    /\ SameKey(s1, s2)
    /\ steps[s1] # <<>>
    /\ steps[s2] # <<>>

\* C5: two submissions both pass the duplicate check and write for the same
\* key only when one of them started while the other was running: one
\* clinician submitting one form after the other never gets there.
C5_RaceNeedsInterleaving ==
    \A s1, s2 \in Sessions :
       DoubleRun(s1, s2) => (s1 \in overlap[s2] \/ s2 \in overlap[s1])

\* C5 witness: the race: both submissions for one key passed the check and
\* both ran the whole pipeline, leaving two observed rows and two
\* prediction rows at the key.
C5_Witness ==
    \E s1, s2 \in Sessions :
       /\ DoubleRun(s1, s2)
       /\ steps[s1] = PipelineOrder
       /\ steps[s2] = PipelineOrder
       /\ RowsAt(observed_data, form[s1].patient_id, form[s1].time_input) = 2
       /\ RowsAt(predictions, form[s1].patient_id, form[s1].time_input) = 2

\* C6: prediction rows are only ever appended, one at a time, by a handler
\* whose last completed step is the classifier's call, and only for a key
\* that has no prediction row yet: at most one row per key.
C6_PredictionOnce ==
    [][/\ Len(predictions') >= Len(predictions)
       /\ SubSeq(predictions', 1, Len(predictions)) = predictions
       /\ predictions' # predictions =>
             LET row == predictions'[Len(predictions')]
             IN  /\ Len(predictions') = Len(predictions) + 1
                 /\ RowsAt(predictions, row.patient_id, row.time) = 0
                 /\ RowsAt(predictions', row.patient_id, row.time) = 1
                 /\ \E s \in Sessions :
                       /\ pc[s] = "store_pred"
                       /\ steps[s][Len(steps[s])] = "predict"
                       /\ form[s].patient_id = row.patient_id
                       /\ form[s].time_input = row.time]_vars

\* C6 witness: a prediction is stored and a later submission for its key
\* was turned away.
C6_Witness ==
    \E s \in Sessions :
       /\ outcome[s].kind = "duplicate"
       /\ RowsAt(predictions, form[s].patient_id, form[s].time_input) = 1

\* The rows of a table at intervals up to t.
Past(table, t) == SelectSeq(table, LAMBDA r : r[timeCol] <= t)

\* C7: the derived dict computed for interval t is what the function
\* computes when the settings and observed rows of later intervals are
\* taken out of the store.
C7_NoFutureDependence ==
    \A s \in Sessions :
       (pc[s] = "assemble" /\ steps[s] = <<"vent", "obs", "derive">>) =>
          derived_data[s] =
             compute_derived_features(patients,
                                      Past(vent_settings, form[s].time_input),
                                      Past(observed_data, form[s].time_input),
                                      form[s].patient_id, observed_row[s]).value

\* LookupError and its subclasses.
IsLookupError(kind) == kind \in {"LookupError", "KeyError", "IndexError"}

\* The call of compute_derived_features that a step makes.
ComputeCall == ncalls' = ncalls + 1 /\ ret'.op = "compute_derived_features"

NoPatientOrSettings(pid) ==
    select_patient(patients, pid) = <<>> \/ select_patient(vent_settings, pid) = <<>>

\* C8 as stated: with the patient or the patient's settings missing the call
\* fails with a LookupError and writes no derived row.
C8_Original ==
    [][(ComputeCall /\ NoPatientOrSettings(ret'.patient_id)) =>
          /\ IsLookupError(ret'.res.err)
          /\ derived_features' = derived_features]_vars

\* C8: with the patient or the patient's settings missing,
\* compute_derived_features fails and writes no derived row; the exception
\* is a ValueError naming the missing row when the observed row carries
\* "time", and the KeyError of the "time" lookup otherwise.
C8_MissingPrerequisite ==
    [][(ComputeCall /\ NoPatientOrSettings(ret'.patient_id)) =>
          /\ derived_features' = derived_features
          /\ ret'.res.value = <<>>
          /\ IF ret'.keyed # "time"
             THEN ret'.res.err = "KeyError"
             ELSE /\ ret'.res.err = "ValueError"
                  /\ ret'.res.msg =
                        IF select_patient(patients, ret'.patient_id) = <<>>
                        THEN "No patient found"
                        ELSE "No vent settings found"]_vars

\* C8 witness: the call failed for a registered patient without settings.
C8_Witness ==
    /\ ret.op = "compute_derived_features"
    /\ ret.res.err = "ValueError"
    /\ select_patient(patients, ret.patient_id) # <<>>
    /\ select_patient(vent_settings, ret.patient_id) = <<>>
    /\ derived_features = <<>>

\* The first of the four rows that (patient, time) lacks, in the order
\* patient, settings, observed, derived; "" when all four exist.
FirstMissing(pid, t) ==
    IF select_patient(patients, pid) = <<>> THEN "No patient found"
    ELSE IF ~HasRow(vent_settings, pid, t) THEN "No vent settings"
    ELSE IF ~HasRow(observed_data, pid, t) THEN "No observed data"
    ELSE IF ~HasRow(derived_features, pid, t) THEN "No derived features"
    ELSE ""

\* C9 as stated: a missing row makes prepare_input_features fail with a
\* LookupError.
C9_Original ==
    (ret.op = "prepare_input_features" /\ FirstMissing(ret.patient_id, ret.time) # "") =>
       IsLookupError(ret.res.err)

\* C9: prepare_input_features fails with a ValueError whose message names
\* the first missing row, in the order patient, settings, observed, derived,
\* the four messages differing; it returns a vector, one entry per trained
\* feature, only when all four rows exist.
C9_MissingSource ==
    ret.op = "prepare_input_features" =>
       IF FirstMissing(ret.patient_id, ret.time) # ""
       THEN /\ ret.res.err = "ValueError"
            /\ ret.res.msg = FirstMissing(ret.patient_id, ret.time)
            /\ ret.res.value = <<>>
       ELSE /\ ret.res.err = "none"
            /\ Len(ret.res.value) = Len(TRAIN_FEATURES)
            /\ \A i \in 1 .. Len(TRAIN_FEATURES) : ret.res.value[i].key = TRAIN_FEATURES[i]

\* C9 witness: patient and settings exist, the observed and the derived row
\* are both missing, and the call failed.
C9_Witness ==
    /\ ret.op = "prepare_input_features"
    /\ ret.res.err # "none"
    /\ select_patient(patients, ret.patient_id) # <<>>
    /\ HasRow(vent_settings, ret.patient_id, ret.time)
    /\ ~HasRow(observed_data, ret.patient_id, ret.time)
    /\ ~HasRow(derived_features, ret.patient_id, ret.time)

DeltaFields ==
    {"tv_diff", "tv_pct_change", "etco2_diff", "etco2_pct_change",
     "spo2_diff", "spo2_pct_change", "pplat_diff", "pplat_pct_change"}

LagFields ==
    {"tv_lag1", "etco2_lag1", "spo2_lag1", "pplat_lag1", "hr_lag1", "rr_lag1"}

PredecessorAbsent(pid, t) ==
    t = 0 \/ ~HasRow(observed_data, pid, t - IntervalStep)

\* C10: when the handler derives for an interval whose predecessor is absent
\* (interval 0, or no observed row 15 minutes earlier), the derivation
\* completes, the 8 delta and 6 lag fields are null and the row is stored.
C10_AbsentPredecessor ==
    [][\A s \in Sessions :
          (/\ pc[s] = "derive"
           /\ pc'[s] # "derive"
           /\ "time" \in DOMAIN observed_row[s]
           /\ PredecessorAbsent(form[s].patient_id, form[s].time_input)) =>
             /\ pc'[s] = "assemble"
             /\ \A k \in DeltaFields \cup LagFields : derived_data'[s][k] = Null
             /\ derived_features' = Append(derived_features, derived_data'[s])
             /\ derived_data'[s].time = form[s].time_input]_vars

\* C10 witness: a derived row stored for an interval after 0 whose
\* predecessor is missing, its lag null.
C10_Witness ==
    \E s \in Sessions :
       /\ pc[s] = "assemble"
       /\ form[s].time_input > 0
       /\ ~HasRow(observed_data, form[s].patient_id, form[s].time_input - IntervalStep)
       /\ derived_data[s].tv_lag1 = Null
       /\ InTable(derived_features, derived_data[s])

\* The rows of the call's earlier observed rows that are 15 minutes before
\* the observed row.
FnBefore ==
    {i \in 1 .. Len(ret.args.obsT) :
        /\ ret.args.obsT[i].patient_id = ret.args.o.patient_id
        /\ ret.args.obsT[i].time = ret.args.o.time - IntervalStep}

Derived == ret.op = "compute_derived_features" /\ ret.res.err = "none"

\* C11: a derivation for an interval after 0 whose predecessor row exists
\* gives, for tv, etco2, spo2 and pplat, var_diff = the observed value minus
\* the predecessor's value.
C11_Diff ==
    (Derived /\ ret.args.o.time > 0 /\ FnBefore # {}) =>
       \E i \in FnBefore :
          LET o == ret.args.o
              before == ret.args.obsT[i]
              d == ret.res.value
          IN  /\ d.tv_diff = <<o.tv - before.tv>>
              /\ d.etco2_diff = <<o.etco2 - before.etco2>>
              /\ d.spo2_diff = <<o.spo2 - before.spo2>>
              /\ d.pplat_diff = <<o.pplat - before.pplat>>

\* C11 witness: a derivation at interval 30 with the row of interval 15
\* present and the row of interval 0 present too, all four differences
\* non-zero.
C11_Witness ==
    /\ Derived
    /\ ret.args.o.time = 2 * IntervalStep
    /\ Len(ret.args.obsT) = 2
    /\ ret.res.value.tv_diff = <<270>>
    /\ ret.res.value.etco2_diff = <<12>>
    /\ ret.res.value.spo2_diff = <<-6>>
    /\ ret.res.value.pplat_diff = <<13>>

\* The stored predecessor rows of the call: same patient, 15 minutes earlier.
Predecessors(pid, t) == select_eq(observed_data, pid, t - IntervalStep)

\* C12: a call whose prerequisites exist and whose predecessor row has
\* tv = 0 does not raise: tv_pct_change is null, the rest of the record is
\* computed and the row is stored.
C12_ZeroGuard ==
    [][(/\ ComputeCall
        /\ ret'.keyed = "time"
        /\ ~NoPatientOrSettings(ret'.patient_id)
        /\ ret'.time > 0
        /\ Predecessors(ret'.patient_id, ret'.time) # <<>>
        /\ Predecessors(ret'.patient_id, ret'.time)[1].tv = 0) =>
          /\ ret'.res.err = "none"
          /\ ret'.res.value.tv_pct_change = Null
          /\ ret'.res.value.tv_lag1 = <<0>>
          /\ derived_features' = Append(derived_features, ret'.res.value)]_vars

\* 1 when lo <= v <= hi, else 0.
Flag(v, lo, hi) == IF lo <= v /\ v <= hi THEN <<1>> ELSE <<0>>

\* C13: in_range gives null when the value or a bound is missing, and
\* otherwise 1 exactly when min <= value <= max, the bounds included, else 0;
\* the derived flags of tv, etco2 and spo2 use the patient's bounds and the
\* flag of pplat the bounds 0 and max_pplat.
C13_InRange ==
    /\ ret.op = "in_range" =>
          LET value == ret.args[1]
              min_val == ret.args[2]
              max_val == ret.args[3]
          IN  IF value = Null \/ min_val = Null \/ max_val = Null
              THEN ret.res = Null
              ELSE ret.res = Flag(value[1], min_val[1], max_val[1])
    /\ Derived =>
          LET o == ret.args.o
              patient == ret.args.patient
              d == ret.res.value
          IN  /\ d.tv_in_range = Flag(o.tv, patient.min_tv, patient.max_tv)
              /\ d.etco2_in_range = Flag(o.etco2, patient.min_etco2, patient.max_etco2)
              /\ d.spo2_in_range = Flag(o.spo2, patient.min_spo2, patient.max_spo2)
              /\ d.pplat_in_range = Flag(o.pplat, 0, patient.max_pplat)

\* C13 witness: a derivation with tv on its upper bound, pplat 0 and spo2
\* on its upper bound, all flagged in range, and etco2 above its bound.
C13_Witness ==
    /\ Derived
    /\ ret.args.o.tv = ret.args.patient.max_tv
    /\ ret.args.patient.min_tv < ret.args.patient.max_tv
    /\ ret.args.o.pplat = 0
    /\ ret.args.o.spo2 = ret.args.patient.max_spo2
    /\ ret.res.value.tv_in_range = <<1>>
    /\ ret.res.value.pplat_in_range = <<1>>
    /\ ret.res.value.spo2_in_range = <<1>>
    /\ ret.res.value.etco2_in_range = <<0>>

\* C14 as stated: tv_dist_closest is at most tv_dist_low and at most
\* tv_dist_high for every value and bounds.
C14_Original ==
    Derived =>
       LET d == ret.res.value
       IN  /\ d.tv_dist_low = <<ret.args.o.tv - ret.args.patient.min_tv>>
           /\ d.tv_dist_high = <<ret.args.patient.max_tv - ret.args.o.tv>>
           /\ d.tv_dist_closest[1] <= d.tv_dist_low[1]
           /\ d.tv_dist_closest[1] <= d.tv_dist_high[1]

\* C14: tv_dist_low = value - min_tv, tv_dist_high = max_tv - value, and
\* tv_dist_closest is the smaller of their absolute values: never negative,
\* at most |tv_dist_low| and |tv_dist_high|, and at most tv_dist_low and
\* tv_dist_high themselves exactly when min_tv <= value <= max_tv.
C14_DistClosest ==
    Derived =>
       LET d == ret.res.value
           value == ret.args.o.tv
           min_tv == ret.args.patient.min_tv
           max_tv == ret.args.patient.max_tv
           low == value - min_tv
           high == max_tv - value
           closest == d.tv_dist_closest[1]
       IN  /\ d.tv_dist_low = <<low>>
           /\ d.tv_dist_high = <<high>>
           /\ closest >= 0
           /\ closest \in {IF low < 0 THEN -low ELSE low,
                           IF high < 0 THEN -high ELSE high}
           /\ closest <= (IF low < 0 THEN -low ELSE low)
           /\ closest <= (IF high < 0 THEN -high ELSE high)
           /\ (closest <= low /\ closest <= high) <=> (min_tv <= value /\ value <= max_tv)

\* C14 witness: a derivation with tv below min_tv: tv_dist_low is negative
\* and tv_dist_closest is greater.
C14_Witness ==
    /\ Derived
    /\ ret.args.o.tv < ret.args.patient.min_tv
    /\ ret.args.patient.min_tv < ret.args.patient.max_tv
    /\ ret.res.value.tv_dist_low[1] < 0
    /\ ret.res.value.tv_dist_closest[1] > ret.res.value.tv_dist_low[1]

\* C15 as stated: pplat_dist_closest equals pplat_dist_high for every value,
\* and there is no pplat_dist_low.
C15_Original ==
    Derived =>
       /\ ret.res.value.pplat_dist_high =
             <<ret.args.patient.max_pplat - ret.args.o.pplat>>
       /\ ret.res.value.pplat_dist_closest = ret.res.value.pplat_dist_high
       /\ "pplat_dist_low" \notin DOMAIN ret.res.value

\* C15: pplat_dist_high = max_pplat - value and pplat_dist_closest is its
\* absolute value: the two are equal exactly when value <= max_pplat, and
\* opposite when value > max_pplat; the record has no pplat_dist_low.
C15_PplatDist ==
    Derived =>
       LET d == ret.res.value
           high == ret.args.patient.max_pplat - ret.args.o.pplat
       IN  /\ d.pplat_dist_high = <<high>>
           /\ d.pplat_dist_closest = <<IF high < 0 THEN -high ELSE high>>
           /\ (d.pplat_dist_closest = d.pplat_dist_high)
                 <=> (ret.args.o.pplat <= ret.args.patient.max_pplat)
           /\ "pplat_dist_low" \notin DOMAIN d

\* C15 witness: a derivation with pplat above max_pplat: distance -5 to the
\* bound, closest distance 5.
C15_Witness ==
    /\ Derived
    /\ ret.args.o.pplat > ret.args.patient.max_pplat
    /\ ret.res.value.pplat_dist_high = <<-5>>
    /\ ret.res.value.pplat_dist_closest = <<5>>

\* The text is "insp:exp" with two positive integers.
PositiveInts(text) ==
    LET parts == split(text, ":")
    IN  /\ Len(parts) = 2
        /\ isdigit(parts[1]) /\ int(parts[1]) > 0
        /\ isdigit(parts[2]) /\ int(parts[2]) > 0

\* C16: parse_ie_ratio gives exp/insp for a text "insp:exp" of two positive
\* integers and null for every other text.
C16_ParseIE ==
    ret.op = "parse_ie_ratio" =>
       LET text == ret.args[1]
           parts == split(text, ":")
       IN  IF PositiveInts(text)
           THEN ret.res = Quot(int(parts[2]), int(parts[1]))
           ELSE ret.res = Null

\* The sequence has exactly the trained names as keys, in the list's order.
TrainedKeys(row) ==
    /\ Len(row) = Len(TRAIN_FEATURES)
    /\ \A i \in 1 .. Len(TRAIN_FEATURES) : row[i].key = TRAIN_FEATURES[i]

\* C17: the feature vector of prepare_input_features and the table of
\* preprocess_data have exactly the trained names, in the list's order: a
\* name no source has is there with null, a source's key that is not a
\* trained name is not there.
C17_Projection ==
    /\ ret.op = "prepare_input_features" =>
          /\ TrainedKeys(ret.res)
          /\ \A i \in 1 .. Len(ret.res) :
                (/\ ret.res[i].key \notin DOMAIN ret.args.patient
                 /\ ret.res[i].key \notin DOMAIN ret.args.vent
                 /\ ret.res[i].key \notin DOMAIN ret.args.obs
                 /\ ret.res[i].key \notin DOMAIN ret.args.derived)
                   => ret.res[i].value = Null
    /\ ret.op = "preprocess_data" =>
          /\ TrainedKeys(ret.res)
          /\ \A i \in 1 .. Len(ret.res) :
                LET at == {j \in 1 .. Len(ret.args[1]) :
                              ret.args[1][j].key = ret.res[i].key}
                IN  IF at = {} THEN ret.res[i].value = Null
                    ELSE \E j \in at : ret.res[i].value = ret.args[1][j].value

\* C17 witness: preprocess_data on a dict that is out of order, lacks
\* trained names and has the keys time and etco2 the list does not have.
C17_Witness ==
    /\ ret.op = "preprocess_data"
    /\ Len(ret.args[1]) = 4
    /\ ret.args[1][2].key = "time"
    /\ ret.res[1] = [key |-> "min_tv", value |-> <<400>>]
    /\ ret.res[2] = [key |-> "max_tv", value |-> Null]
    /\ ret.res[Len(ret.res)] = [key |-> "ie_ratio_numeric", value |-> <<2>>]

\* The assembled value of a trained name.
Assembled(k) ==
    ret.res[CHOOSE i \in 1 .. Len(ret.res) : ret.res[i].key = k].value

\* C18: a key that several sources carry is assembled with the value of
\* the last of them in the order patient, settings, observed, derived.
\* The sources carry tv = 1, 2, 3 and 4 in that order.
C18_LastSourceWins ==
    ret.op = "prepare_input_features" =>
       LET holders == {n \in 1 .. 4 :
                         "tv" \in DOMAIN <<ret.args.patient, ret.args.vent,
                                           ret.args.obs, ret.args.derived>>[n]}
       IN  IF holders = {} THEN Assembled("tv") = Null
           ELSE Assembled("tv") = <<CHOOSE n \in holders : \A m \in holders : m <= n>>

\* C18 witness: tv is in the settings row and the observed row, not in the
\* derived row, and the observed row's value is assembled.
C18_Witness ==
    /\ ret.op = "prepare_input_features"
    /\ "tv" \in DOMAIN ret.args.vent
    /\ "tv" \in DOMAIN ret.args.obs
    /\ "tv" \notin DOMAIN ret.args.derived
    /\ Assembled("tv") = <<ret.args.obs.tv>>

\* C19: predict_outcomes maps the classifier's four labels by position to
\* tv_in_range_next, etco2_in_range_next, spo2_in_range_next and
\* pplat_in_range_next, each 0 or 1, and leaves every table as it was.
C19_PredictMapping ==
    [][(ret' # ret /\ ret'.op = "predict_outcomes" /\ ret'.res.err = "none") =>
          LET model_out == ret'.args[2]
              p == ret'.res.value
          IN  /\ DOMAIN p = {"tv_in_range_next", "etco2_in_range_next",
                             "spo2_in_range_next", "pplat_in_range_next"}
              /\ p.tv_in_range_next = model_out[1]
              /\ p.etco2_in_range_next = model_out[2]
              /\ p.spo2_in_range_next = model_out[3]
              /\ p.pplat_in_range_next = model_out[4]
              /\ \A k \in DOMAIN p : p[k] \in {0, 1}
              /\ tables' = tables]_vars

\* C19 witness: the answer 0, 1, 1, 0 mapped to tv 0, etco2 1, spo2 1,
\* pplat 0.
C19_Witness ==
    /\ ret.op = "predict_outcomes"
    /\ ret.res.err = "none"
    /\ ret.args[2] = <<0, 1, 1, 0>>
    /\ ret.res.value = [tv_in_range_next |-> 0, etco2_in_range_next |-> 1,
                        spo2_in_range_next |-> 1, pplat_in_range_next |-> 0]

InList(name, list) == \E i \in 1 .. Len(list) : list[i] = name

C21_DerivedUpsert ==
    /\ \A pid \in PatientIds, t \in Intervals : RowsAt(derived_features, pid, t) <= 1
    /\ (ret.op = "compute_derived_features" /\ ret.res.err = "none") =>
          InTable(derived_features, ret.res.value)

\* C22: a submission that ended with a missing-prerequisite error (the
\* ValueError of the mock generator, of compute_derived_features or of
\* prepare_input_features) stopped there: the handler is not running, the
\* classifier was not called and no prediction was stored by it.
C22_HaltOnMissing ==
    \A s \in Sessions :
       outcome[s].kind = "ValueError" =>
          /\ pc[s] = "idle"
          /\ preds[s] = <<>>
          /\ \A i \in 1 .. Len(steps[s]) : steps[s][i] \notin {"predict", "store_pred"}
          /\ outcome[s].out_of_range = <<>>
          /\ outcome[s].shown = ""

\* C22 witness: the assembly failed for a missing observed row after the
\* submission had stored its settings, observed and derived rows.
C22_Witness ==
    \E s \in Sessions :
       /\ outcome[s].kind = "ValueError"
       /\ outcome[s].msg = "No observed data"
       /\ steps[s] = <<"vent", "obs", "derive">>

\* The lag field of each observed variable.
LagOf ==
    [tv |-> "tv_lag1", etco2 |-> "etco2_lag1", spo2 |-> "spo2_lag1",
     pplat |-> "pplat_lag1", hr |-> "hr_lag1", rr |-> "rr_lag1"]

\* C23: in every store state reached by submissions entered in any interval
\* order, a stored derived row has null delta and lag fields exactly when
\* its time is 0 or the store holds no observed row 15 minutes earlier;
\* otherwise each lag field is the value of that earlier row.
C23_LagMatchesStore ==
    \A i \in 1 .. Len(derived_features) :
       LET d == derived_features[i]
           prev == Predecessors(d.patient_id, d.time)
       IN  IF d.time = 0 \/ prev = <<>>
           THEN \A k \in DeltaFields \cup LagFields : d[k] = Null
           ELSE \A var \in DOMAIN LagOf : d[LagOf[var]] = Some(prev[1][var])

\* C24: every observed row has a settings row of the same patient and
\* interval: a submission whose settings write failed (the error caught and
\* reported) stores no observed row, on the mock page and on the manual page.
C24_ObservedHasSettings ==
    \A i \in 1 .. Len(observed_data) :
       HasRow(vent_settings, observed_data[i].patient_id, observed_data[i][timeCol])

\* The clinician's submissions with the handler running to its end: a
\* Streamlit script run is synchronous, so a handler that can take its next
\* step takes it.
SpecLive == Init /\ [][Next]_vars /\ WF_vars(Step(1))

\* The cases the pipeline is allowed to end in without a prediction: the
\* settings write failed, a predecessor value was zero, or the classifier
\* raised.
Excused(s) ==
    \/ \A i \in 1 .. Len(steps[s]) : steps[s][i] # "vent"
    \/ outcome[s].kind \in {"ZeroDivisionError", "ClassifierError"}

\* C25: every accepted submission (one that passed the duplicate check), on
\* the mock page and on the manual page, in which every store write
\* succeeds, no predecessor value is zero and the classifier returns its
\* labels, eventually ends with a prediction row stored for its key.
C25_EventuallyPredicted ==
    \A s \in {1} :
       (pc[s] = "vent") ~>
          (/\ pc[s] = "idle"
           /\ \/ Excused(s)
              \/ HasRow(predictions, form[s].patient_id, form[s].time_input))

\* C26: in every state reached by the clinician's sequential submissions,
\* every prediction row is accompanied by a settings row, an observed row
\* and a derived row of the same patient and interval.
C26_PredictionAccompanied ==
    \A i \in 1 .. Len(predictions) :
       LET p == predictions[i]
       IN  /\ HasRow(vent_settings, p.patient_id, p.time)
           /\ HasRow(observed_data, p.patient_id, p.time)
           /\ HasRow(derived_features, p.patient_id, p.time)

\* C26 witness: two submissions have each stored a prediction, the later
\* one for interval 15.
C26_Witness ==
    /\ Len(predictions) = 2
    /\ predictions[2].time = IntervalStep
    /\ pc[1] = "idle"
    /\ steps[1] = PipelineOrder

\* A step added a row of the key to the table.
Grew(old, new, pid, t) == RowsAt(new, pid, t) > RowsAt(old, pid, t)

\* The submission of session s is for the key and has stored its settings row.
OwnsKey(s, pid, t) ==
    /\ pc[s] # "idle"
    /\ form[s].patient_id = pid
    /\ form[s].time_input = t
    /\ \E i \in 1 .. Len(steps[s]) : steps[s][i] = "vent"

\* C27: once a settings row exists for a key, no later submission writes an
\* observed, derived or prediction row for it: a submission reaches its
\* settings write only when the key has no settings row, and a row added
\* for a key that has one is added by the submission that stored it. So an
\* interval whose submission failed after the settings write gets no
\* prediction row in any later step.
C27_NoLaterWrites ==
    [][/\ \A s \in Sessions :
             (pc[s] = "vent" /\ pc'[s] # "vent") =>
                ~HasRow(vent_settings, form[s].patient_id, form[s].time_input)
       /\ \A pid \in PatientIds, t \in Intervals :
             (/\ HasRow(vent_settings, pid, t)
              /\ \/ Grew(observed_data, observed_data', pid, t)
                 \/ Grew(derived_features, derived_features', pid, t)
                 \/ Grew(predictions, predictions', pid, t))
             => \E s \in Sessions : OwnsKey(s, pid, t)
       /\ \A pid \in PatientIds, t \in Intervals :
             (/\ HasRow(vent_settings, pid, t)
              /\ ~HasRow(predictions, pid, t)
              /\ ~\E s \in Sessions : OwnsKey(s, pid, t))
             => ~HasRow(predictions', pid, t)]_vars

\* C27 witness: a submission failed at the classifier after storing its
\* settings, observed and derived rows, and the later submission for the
\* same key was turned away: the key has no prediction row.
C27_Witness ==
    \E s \in Sessions :
       /\ outcome[s].kind = "duplicate"
       /\ HasRow(vent_settings, form[s].patient_id, form[s].time_input)
       /\ HasRow(derived_features, form[s].patient_id, form[s].time_input)
       /\ ~HasRow(predictions, form[s].patient_id, form[s].time_input)

====
